---------------------------- MODULE Spec2Model ----------------------------
(***************************************************************************)
(* A model of disjuntor, a circuit breaker: the state classes of           *)
(* disjuntor/main.py (OpenState, ClosedState, HalfOpenState), the wrapper  *)
(* CircuitBreaker with its call shapes (with-block, async with-block,      *)
(* decorator, async decorator) and the store of disjuntor/storage.py       *)
(* (MemoryStorage).                                                        *)
(***************************************************************************)
EXTENDS Integers, Sequences, FiniteSets, TLC

(* ------------------------------ bounds -------------------------------- *)

\* The clock runs from 0 to MaxTime.
MaxTime == 2
\* The timeouts a breaker is constructed with: 0..MaxTimeout.
MaxTimeout == 2
\* The thresholds a breaker is constructed with: 1..MaxThreshold, or the default.
MaxThreshold == 2
\* A counter of the store is counted up to MaxOver beyond the threshold.
MaxOver == 1
\* Admitted calls of one breaker that may be in progress at once.
MaxInflight == 1
\* The call history of a breaker is recorded for its first MaxHist calls.
MaxHist == 7
\* The states a breaker has been in are recorded up to MaxTrail of them.
MaxTrail == 5
\* The threads that call an increment of the store at the same time.
MaxThreads == 3

(* ------------------------- program constants -------------------------- *)

\* CircuitBreaker.__init__: threshold: int = 5
DefaultThreshold == 5

\* class State(str, Enum)
OPEN == "open"
CLOSED == "closed"
HALF_OPEN == "half-open"
State == {OPEN, CLOSED, HALF_OPEN}

Names == {"foo", "bar"}
Insts == {"a", "b"}
Thresholds == 1..MaxThreshold
Timeouts == 0..MaxTimeout

\* The call shapes: with-block, async with-block, decorator, async decorator.
Shapes == {"cm", "acm", "dec", "adec"}
\* What a guarded operation does: returns, raises an Exception, raises a
\* BaseException that is no Exception (asyncio.CancelledError, KeyboardInterrupt).
Outcomes == {"ok", "exc", "base"}

VARIABLES
    now,        \* datetime.now()
    storage,    \* the MemoryStorage shared by the breakers
    cbs,        \* the CircuitBreaker instances that were constructed
    name,       \* CircuitBreaker.name, per instance
    threshold,  \* BaseState.threshold, per instance
    timeout,    \* BaseState.timeout, per instance
    state,      \* CircuitBreaker.state (the tag of the state object), per instance
    wrapped,    \* per instance: the kinds of decorator closures __call__ returned
    inflight,   \* per instance and shape: admitted calls whose operation is running
    ev,         \* the last operation performed and what its caller observed
    hist,       \* per instance: the results of its first calls, in order
    runs,       \* per instance: run lengths of the outcomes processed
    trail,      \* per instance: the states it has been in, in order
    observe,    \* whether runs and trail are recorded in this behaviour
    limit,      \* how many admitted calls of one breaker overlap in this behaviour
    threads     \* per thread: its call of an increment of the store, in progress

vars == <<now, storage, cbs, name, threshold, timeout, state, wrapped,
          inflight, ev, hist, runs, trail, observe, limit, threads>>

(* --------------------------- MemoryStorage ---------------------------- *)

\* MemoryStorage.__init__
MemoryStorage ==
    [_failure_counter |-> [n \in Names |-> 0],
     _success_counter |-> [n \in Names |-> 0],
     _start_time      |-> << >>]

increment_failure_counter(st, nm) ==
    [st EXCEPT !._failure_counter[nm] = @ + 1]

increment_success_counter(st, nm) ==
    [st EXCEPT !._success_counter[nm] = @ + 1]

\* A variant: the store keeps one start time, for all names.
start_timeout_timer_shared(st, nm, t) ==
    [st EXCEPT !._start_time = [n \in Names |-> t]]

\* self._start_time[name] = datetime.now()
start_timeout_timer(st, nm, t) ==
    [st EXCEPT !._start_time =
        [n \in (DOMAIN st._start_time) \cup {nm} |->
            IF n = nm THEN t ELSE st._start_time[n]]]

failure_counter(st, nm) == st._failure_counter[nm]

success_counter(st, nm) == st._success_counter[nm]

\* Optional[datetime]: the empty set is None, {t} is the datetime t.
timer(st, nm) ==
    IF nm \notin DOMAIN st._start_time THEN {} ELSE {st._start_time[nm]}

(* ---------------------------- state classes --------------------------- *)
\* A method of a state class returns the state object it returns (its tag)
\* and the store as the call leaves it.  p is the policy and identity of the
\* state object: [name, threshold, timeout].

\* A variant: OpenState without __post_init__.
OpenState_unarmed(st, p, t) == [state |-> OPEN, storage |-> st]

\* OpenState(...): the dataclass constructor with __post_init__
OpenState(st, p, t) ==
    [state |-> OPEN, storage |-> start_timeout_timer(st, p.name, t)]

ClosedState(st, p, t) == [state |-> CLOSED, storage |-> st]

HalfOpenState(st, p, t) == [state |-> HALF_OPEN, storage |-> st]

\* BaseState.is_open
is_open(tag) == tag = OPEN

\* A variant: the breaker stays Open at the instant the timeout ends.
OpenState_next_state_inclusive(st, p, t) ==
    IF \E tm \in timer(st, p.name) : tm + p.timeout >= t
    THEN [state |-> OPEN, storage |-> st]
    ELSE HalfOpenState(st, p, t)

\* A variant: staying Open constructs a new OpenState, which re-arms the timer.
OpenState_next_state_rearming(st, p, t) ==
    IF \E tm \in timer(st, p.name) : tm + p.timeout > t
    THEN OpenState(st, p, t)
    ELSE HalfOpenState(st, p, t)

\* A variant: an attempt rejected while Open is counted as a failure.
OpenState_next_state_counting(st, p, t) ==
    IF \E tm \in timer(st, p.name) : tm + p.timeout > t
    THEN [state |-> OPEN, storage |-> increment_failure_counter(st, p.name)]
    ELSE HalfOpenState(st, p, t)

\* A variant: when the timeout is over, the Half-Open state is asked for its
\* next state at once.
OpenState_next_state_hopping(st, p, t) ==
    IF \E tm \in timer(st, p.name) : tm + p.timeout > t
    THEN [state |-> OPEN, storage |-> st]
    ELSE IF success_counter(st, p.name) >= p.threshold
    THEN ClosedState(st, p, t)
    ELSE HalfOpenState(st, p, t)

OpenState_next_state(st, p, t) ==
    IF \E tm \in timer(st, p.name) : tm + p.timeout > t
    THEN [state |-> OPEN, storage |-> st]
    ELSE HalfOpenState(st, p, t)

OpenState_success(st, p, t) == [state |-> OPEN, storage |-> st]

\* A variant: a failure reported to an Open state re-arms its timer.
OpenState_failure_rearming(st, p, t) == OpenState(st, p, t)

OpenState_failure(st, p, t) == [state |-> OPEN, storage |-> st]

\* A variant: the breaker opens one failure late.
ClosedState_next_state_late(st, p, t) ==
    IF failure_counter(st, p.name) > p.threshold
    THEN OpenState(st, p, t)
    ELSE [state |-> CLOSED, storage |-> st]

\* A variant: a Closed state does not look at the failure counter.
ClosedState_next_state_passive(st, p, t) == [state |-> CLOSED, storage |-> st]

ClosedState_next_state(st, p, t) ==
    IF failure_counter(st, p.name) >= p.threshold
    THEN OpenState(st, p, t)
    ELSE [state |-> CLOSED, storage |-> st]

ClosedState_success(st, p, t) == [state |-> CLOSED, storage |-> st]

\* A variant: a failure is counted, the state changes at the next admission.
ClosedState_failure_lazy(st, p, t) ==
    [state |-> CLOSED, storage |-> increment_failure_counter(st, p.name)]

ClosedState_failure(st, p, t) ==
    ClosedState_next_state(increment_failure_counter(st, p.name), p, t)

HalfOpenState_next_state(st, p, t) ==
    IF success_counter(st, p.name) >= p.threshold
    THEN ClosedState(st, p, t)
    ELSE [state |-> HALF_OPEN, storage |-> st]

HalfOpenState_success(st, p, t) ==
    HalfOpenState_next_state(increment_success_counter(st, p.name), p, t)

\* A variant: a failure in Half-Open is counted as one.
HalfOpenState_failure_counting(st, p, t) ==
    OpenState(increment_failure_counter(st, p.name), p, t)

HalfOpenState_failure(st, p, t) == OpenState(st, p, t)

\* self.state.next_state(), dispatched on the class of the state object
next_state(tag, st, p, t) ==
    CASE tag = OPEN      -> OpenState_next_state(st, p, t)
      [] tag = CLOSED    -> ClosedState_next_state(st, p, t)
      [] tag = HALF_OPEN -> HalfOpenState_next_state(st, p, t)

success(tag, st, p, t) ==
    CASE tag = OPEN      -> OpenState_success(st, p, t)
      [] tag = CLOSED    -> ClosedState_success(st, p, t)
      [] tag = HALF_OPEN -> HalfOpenState_success(st, p, t)

failure(tag, st, p, t) ==
    CASE tag = OPEN      -> OpenState_failure(st, p, t)
      [] tag = CLOSED    -> ClosedState_failure(st, p, t)
      [] tag = HALF_OPEN -> HalfOpenState_failure(st, p, t)

\* _get_state: the class whose tag is `tag`, constructed
_get_state(tag, st, p, t) ==
    CASE tag = OPEN      -> OpenState(st, p, t)
      [] tag = CLOSED    -> ClosedState(st, p, t)
      [] tag = HALF_OPEN -> HalfOpenState(st, p, t)

(* --------------------------- CircuitBreaker --------------------------- *)

\* The fields a state object of breaker i is constructed with.
Policy(i) == [name |-> name[i], threshold |-> threshold[i], timeout |-> timeout[i]]

\* Admitted calls of breaker i whose guarded operation is running.
Total(i) ==
    inflight[i]["cm"] + inflight[i]["acm"] + inflight[i]["dec"] + inflight[i]["adec"]

\* timer and timer + timeout > now, as OpenState.next_state reads it
Early(i) == \E tm \in timer(storage, name[i]) : now < tm + timeout[i]

\* The counters of breaker i stay within the counted range.
InRange(st, i) ==
    /\ st._failure_counter[name[i]] <= threshold[i] + MaxOver
    /\ st._success_counter[name[i]] <= threshold[i] + MaxOver

\* A variant: __exit__ returns True, which suppresses the body's exception.
ExitRaised_suppressing(o) == "none"

\* What the caller of a with-block sees when the body ended with o:
\* __exit__ and __aexit__ return None, so the body's exception propagates.
ExitRaised(o) == IF o = "ok" THEN "none" ELSE o

\* What the caller of a decorator closure sees when func ended with o:
\* `except Exception: ...; raise` re-raises, any other exception passes.
DecoratorRaised(o) == IF o = "ok" THEN "none" ELSE o

\* Whether __exit__/__aexit__ hand the outcome to the state: always
\* (exc is None: success(), else failure()).
ExitProcesses(o) == TRUE

\* A variant: the closure has no except clause.
DecoratorProcesses_unguarded(o) == o = "ok"

\* Whether a decorator closure hands the outcome to the state: success()
\* after a return, failure() under `except Exception`.
DecoratorProcesses(o) == o \in {"ok", "exc"}

\* One guarded call from the state object `tag` and the store st: the
\* admission at time t1 and, if admitted, the outcome o at time t2.  What it
\* leaves: the state object, the store, and what the caller sees raised.
GuardedCall(tag, st, p, t1, t2, o, processes, raised) ==
    LET a == next_state(tag, st, p, t1)
        r == IF ~processes THEN a
             ELSE IF o = "ok" THEN success(a.state, a.storage, p, t2)
             ELSE failure(a.state, a.storage, p, t2)
    IN  IF is_open(a.state)
        THEN [state |-> a.state, storage |-> a.storage, raised |-> "CBE"]
        ELSE [state |-> r.state, storage |-> r.storage, raised |-> raised]

\* with cb: <an operation that ends with o>
WithBlock(tag, st, p, t1, t2, o) ==
    GuardedCall(tag, st, p, t1, t2, o, ExitProcesses(o), ExitRaised(o))

\* cb(func)(): func wrapped, and the closure called once; func ends with o
WrappedCall(tag, st, p, t1, t2, o) ==
    GuardedCall(tag, st, p, t1, t2, o, DecoratorProcesses(o), DecoratorRaised(o))

(* ------------------------- history variables -------------------------- *)

POISON == <<"X">>

\* hist records the calls of a breaker while they are failed calls ("F"),
\* then rejected attempts ("R"), then at most one other call: "A" (admitted,
\* its operation not yet ended), "S" (returned), "F" (failed), "B" (ended
\* with a BaseException); "U", "s", "b" are "A", "S", "B" for a call of a
\* decorator closure that no admission check preceded.  It is given up
\* (POISON) when calls overlap, when a call follows that last one, or when
\* it is full.
HistOpen(h) ==
    /\ h # POISON
    /\ \/ Len(h) = 0
       \/ h[Len(h)] = "R"
       \/ \A j \in 1..Len(h) : h[j] = "F"

\* A call attempt x ("A": admitted, "R": rejected) is added to the history h.
HistAttempt(h, busy, x) ==
    IF ~HistOpen(h) \/ busy \/ Len(h) >= MaxHist
    THEN POISON
    ELSE Append(h, x)

\* A decorator closure is invoked: it is the call of the admission that
\* returned it, or a further call of its own.
HistInvoke(h, busy) ==
    IF h = POISON \/ busy THEN POISON
    ELSE IF Len(h) > 0 /\ h[Len(h)] = "A" THEN h
    ELSE IF ~HistOpen(h) \/ Len(h) >= MaxHist THEN POISON
    ELSE Append(h, "U")

Unchecked(x) == CASE x = "S" -> "s" [] x = "B" -> "b" [] OTHER -> x

\* The call in progress ends with x ("S", "F" or "B").
HistOutcome(h, x) ==
    IF h # POISON /\ Len(h) > 0 /\ h[Len(h)] = "A"
    THEN [h EXCEPT ![Len(h)] = x]
    ELSE IF h # POISON /\ Len(h) > 0 /\ h[Len(h)] = "U"
    THEN [h EXCEPT ![Len(h)] = Unchecked(x)]
    ELSE POISON

\* trail records the states a breaker has been in, in order, up to MaxTrail.
TrailAfter(tr, tag) ==
    IF tag = tr[Len(tr)] \/ Len(tr) >= MaxTrail THEN tr ELSE Append(tr, tag)

HistLetter(o) == CASE o = "ok" -> "S" [] o = "exc" -> "F" [] o = "base" -> "B"

Min(x, y) == IF x < y THEN x ELSE y

\* runs.cf: the failures in a row among the outcomes processed while Closed;
\* runs.hs: how many of the last outcomes processed were successes in Half-Open.
RunsAfter(r, pre, o, cap) ==
    IF o = "ok"
    THEN [cf |-> IF pre = CLOSED THEN 0 ELSE r.cf,
          hs |-> IF pre = HALF_OPEN THEN Min(r.hs + 1, cap) ELSE 0]
    ELSE [cf |-> IF pre = CLOSED THEN Min(r.cf + 1, cap) ELSE r.cf,
          hs |-> 0]

\* ev, the last step: op ("admit": steps 1-2 of a call, "invoke": a decorator
\* closure was called, "outcome": steps 4-5, "tick", "init"), the breaker and
\* the call shape, the state before the step (pre), whether the timeout was
\* still running before it (early), how the guarded operation ended (outcome),
\* which of success()/failure() was applied, what the caller saw raised
\* ("none", "CBE": CircuitBreakerException, "exc", "base"), whether the
\* guarded operation was started by the step (ran), and by how much the step
\* changed the counters of the breaker's name (dfail, dsucc).
NoEv ==
    [op |-> "init", inst |-> "a", shape |-> "cm", pre |-> CLOSED, early |-> FALSE,
     outcome |-> "-", applied |-> "none", raised |-> "none", ran |-> FALSE,
     dfail |-> 0, dsucc |-> 0]

DFail(st, i) == failure_counter(st, name[i]) - failure_counter(storage, name[i])

DSucc(st, i) == success_counter(st, name[i]) - success_counter(storage, name[i])

(* ------------------------------ actions ------------------------------- *)

\* Steps 1-2 of a call: self.state = self.state.next_state(); raise
\* CircuitBreakerException if it is open.  blockShape: the body of a
\* with-block starts when the admission returns.
Admit(i, sh, blockShape) ==
    LET r == next_state(state[i], storage, Policy(i), now)
        rejected == is_open(r.state)
    IN  /\ i \in cbs
        /\ Total(i) < limit
        /\ state' = [state EXCEPT ![i] = r.state]
        /\ storage' = r.storage
        /\ inflight' = IF blockShape /\ ~rejected
                       THEN [inflight EXCEPT ![i][sh] = @ + 1]
                       ELSE inflight
        /\ ev' = [op |-> "admit", inst |-> i, shape |-> sh, pre |-> state[i],
                  early |-> Early(i), outcome |-> "-", applied |-> "none",
                  raised |-> IF rejected THEN "CBE" ELSE "none",
                  ran |-> blockShape /\ ~rejected,
                  dfail |-> DFail(r.storage, i), dsucc |-> DSucc(r.storage, i)]
        /\ hist' = [hist EXCEPT ![i] =
                      HistAttempt(@, Total(i) > 0, IF rejected THEN "R" ELSE "A")]
        /\ trail' = IF observe THEN [trail EXCEPT ![i] = TrailAfter(@, r.state)]
                     ELSE trail
        /\ UNCHANGED <<now, cbs, name, threshold, timeout, runs, observe, limit, threads>>

\* Steps 4-5 of a call: the guarded operation ended with o.
Finish(i, sh, o, processes, raised) ==
    LET r == IF ~processes THEN [state |-> state[i], storage |-> storage]
             ELSE IF o = "ok" THEN success(state[i], storage, Policy(i), now)
             ELSE failure(state[i], storage, Policy(i), now)
    IN  /\ i \in cbs
        /\ inflight[i][sh] > 0
        /\ InRange(r.storage, i)
        /\ state' = [state EXCEPT ![i] = r.state]
        /\ storage' = r.storage
        /\ inflight' = [inflight EXCEPT ![i][sh] = @ - 1]
        /\ ev' = [op |-> "outcome", inst |-> i, shape |-> sh, pre |-> state[i],
                  early |-> Early(i), outcome |-> o,
                  applied |-> IF ~processes THEN "none"
                              ELSE IF o = "ok" THEN "success" ELSE "failure",
                  raised |-> raised, ran |-> FALSE,
                  dfail |-> DFail(r.storage, i), dsucc |-> DSucc(r.storage, i)]
        /\ hist' = [hist EXCEPT ![i] = HistOutcome(@, HistLetter(o))]
        /\ runs' = IF observe /\ processes
                   THEN [runs EXCEPT ![i] = RunsAfter(@, state[i], o, threshold[i])]
                   ELSE runs
        /\ trail' = IF observe THEN [trail EXCEPT ![i] = TrailAfter(@, r.state)]
                     ELSE trail
        /\ UNCHANGED <<now, cbs, name, threshold, timeout, observe, limit, threads>>

\* CircuitBreaker.__enter__
Enter(i) == Admit(i, "cm", TRUE) /\ UNCHANGED wrapped

\* CircuitBreaker.__exit__
Exit(i, o) == Finish(i, "cm", o, ExitProcesses(o), ExitRaised(o)) /\ UNCHANGED wrapped

\* CircuitBreaker.__aenter__
AEnter(i) == Admit(i, "acm", TRUE) /\ UNCHANGED wrapped

\* CircuitBreaker.__aexit__
AExit(i, o) == Finish(i, "acm", o, ExitProcesses(o), ExitRaised(o)) /\ UNCHANGED wrapped

\* CircuitBreaker.__call__(func): the admission, then the closure for func
\* is returned (sh = "adec" when _is_async_callable(func), else "dec").
Call(i, sh) ==
    /\ Admit(i, sh, FALSE)
    /\ wrapped' = IF is_open(state'[i]) THEN wrapped
                  ELSE [wrapped EXCEPT ![i] = @ \cup {sh}]

\* A closure returned by __call__ is invoked: it calls func.
Invoke(i, sh) ==
    /\ i \in cbs
    /\ sh \in wrapped[i]
    /\ Total(i) < limit
    /\ inflight' = [inflight EXCEPT ![i][sh] = @ + 1]
    /\ ev' = [op |-> "invoke", inst |-> i, shape |-> sh, pre |-> state[i],
              early |-> Early(i), outcome |-> "-", applied |-> "none",
              raised |-> "none", ran |-> TRUE, dfail |-> 0, dsucc |-> 0]
    /\ hist' = [hist EXCEPT ![i] = HistInvoke(@, Total(i) > 0)]
    /\ UNCHANGED <<now, storage, cbs, name, threshold, timeout, state, wrapped,
                   runs, trail, observe, limit, threads>>

\* decorator(*args, **kwargs), called
DecoratorCall(i) == Invoke(i, "dec")

\* decorator: func returned or raised
DecoratorReturn(i, o) ==
    Finish(i, "dec", o, DecoratorProcesses(o), DecoratorRaised(o)) /\ UNCHANGED wrapped

\* async_decorator(*args, **kwargs), called: awaits func
AsyncDecoratorCall(i) == Invoke(i, "adec")

\* async_decorator: the awaited func returned or raised
AsyncDecoratorReturn(i, o) ==
    Finish(i, "adec", o, DecoratorProcesses(o), DecoratorRaised(o)) /\ UNCHANGED wrapped

\* Whether an exception raised by self.state.success() is handled as a
\* failure of the guarded operation: in the closures success() is called
\* inside the try block, so `except Exception` catches it; __exit__ and
\* __aexit__ have no handler around it.
DecoratorCatchesStoreError == TRUE

ExitCatchesStoreError == FALSE

\* Steps 4-5 of a call whose guarded operation returned, with a store whose
\* increment_success_counter raises (Storage.increment_success_counter
\* raises NotImplementedError): success() reaches the store only in
\* Half-Open, and the counter is not updated.
FinishStoreError(i, sh, caught) ==
    LET r == IF caught THEN failure(state[i], storage, Policy(i), now)
             ELSE [state |-> state[i], storage |-> storage]
    IN  /\ i \in cbs
        /\ inflight[i][sh] > 0
        /\ state[i] = HALF_OPEN
        /\ state' = [state EXCEPT ![i] = r.state]
        /\ storage' = r.storage
        /\ inflight' = [inflight EXCEPT ![i][sh] = @ - 1]
        /\ ev' = [op |-> "outcome", inst |-> i, shape |-> sh, pre |-> state[i],
                  early |-> Early(i), outcome |-> "ok",
                  applied |-> IF caught THEN "failure" ELSE "none",
                  raised |-> "store", ran |-> FALSE,
                  dfail |-> DFail(r.storage, i), dsucc |-> DSucc(r.storage, i)]
        /\ hist' = [hist EXCEPT ![i] = HistOutcome(@, "E")]
        /\ trail' = IF observe THEN [trail EXCEPT ![i] = TrailAfter(@, r.state)]
                     ELSE trail
        /\ UNCHANGED <<now, cbs, name, threshold, timeout, wrapped, runs,
                       observe, limit, threads>>

\* CircuitBreaker.__exit__, success() raising
ExitStoreError(i) == FinishStoreError(i, "cm", ExitCatchesStoreError)

\* CircuitBreaker.__aexit__, success() raising
AExitStoreError(i) == FinishStoreError(i, "acm", ExitCatchesStoreError)

\* decorator, success() raising
DecoratorStoreError(i) == FinishStoreError(i, "dec", DecoratorCatchesStoreError)

\* async_decorator, success() raising
AsyncDecoratorStoreError(i) == FinishStoreError(i, "adec", DecoratorCatchesStoreError)

\* Time passes.
Tick ==
    /\ now < MaxTime
    /\ now' = now + 1
    /\ ev' = [NoEv EXCEPT !.op = "tick"]
    /\ UNCHANGED <<storage, cbs, name, threshold, timeout, state, wrapped,
                   inflight, hist, runs, trail, observe, limit, threads>>

Threads == 1..MaxThreads

\* No thread is inside a call of the store.
NoThreads ==
    [t \in Threads |->
        [pc |-> "idle", op |-> "failure", name |-> "foo", value |-> 0, result |-> 0]]

\* The calls of one breaker follow each other, and no thread calls the store
\* on its own.
Sequential == limit = MaxInflight /\ threads = NoThreads

\* CircuitBreaker.__init__ of breaker a, named "foo", on a fresh
\* MemoryStorage, at time 0, with threshold th, timeout to and state s0.
Construct(th, to, s0, obs) ==
    LET p == [name |-> "foo", threshold |-> th, timeout |-> to]
        r == _get_state(s0, MemoryStorage, p, 0)
    IN  /\ now = 0
        /\ cbs = {"a"}
        /\ name = [i \in Insts |-> IF i = "a" THEN "foo" ELSE "bar"]
        /\ threshold = [i \in Insts |-> IF i = "a" THEN th ELSE DefaultThreshold]
        /\ timeout = [i \in Insts |-> IF i = "a" THEN to ELSE 0]
        /\ state = [i \in Insts |-> IF i = "a" THEN r.state ELSE CLOSED]
        /\ storage = r.storage
        /\ wrapped = [i \in Insts |-> {}]
        /\ inflight = [i \in Insts |-> [sh \in Shapes |-> 0]]
        /\ ev = NoEv
        /\ hist = [i \in Insts |-> << >>]
        /\ runs = [i \in Insts |-> [cf |-> 0, hs |-> 0]]
        /\ trail = [i \in Insts |-> IF i = "a" THEN <<r.state>> ELSE <<CLOSED>>]
        /\ observe = obs

\* CircuitBreakerFactory(storage=MemoryStorage(), state=s0, threshold=th,
\* timeout=to), called with the name "foo" for breaker a and then with the
\* name nb for breaker b, at time 0: the two breakers share the store.
CircuitBreakerFactory(nb, th, to, s0) ==
    LET pa == [name |-> "foo", threshold |-> th, timeout |-> to]
        pb == [name |-> nb, threshold |-> th, timeout |-> to]
        ra == _get_state(s0, MemoryStorage, pa, 0)
        rb == _get_state(s0, ra.storage, pb, 0)
    IN  /\ now = 0
        /\ cbs = {"a", "b"}
        /\ name = [i \in Insts |-> IF i = "a" THEN "foo" ELSE nb]
        /\ threshold = [i \in Insts |-> th]
        /\ timeout = [i \in Insts |-> to]
        /\ state = [i \in Insts |-> IF i = "a" THEN ra.state ELSE rb.state]
        /\ storage = rb.storage
        /\ wrapped = [i \in Insts |-> {}]
        /\ inflight = [i \in Insts |-> [sh \in Shapes |-> 0]]
        /\ ev = NoEv
        /\ hist = [i \in Insts |-> POISON]
        /\ runs = [i \in Insts |-> [cf |-> 0, hs |-> 0]]
        /\ trail = [i \in Insts |-> <<s0>>]
        /\ observe = FALSE

\* One breaker, any threshold, timeout and initial state.
Init ==
    /\ \E th \in Thresholds, to \in Timeouts, s0 \in State : Construct(th, to, s0, FALSE)
    /\ Sequential

\* One breaker with the default threshold, any timeout and initial state.
InitDefault ==
    /\ \E to \in Timeouts, s0 \in State : Construct(DefaultThreshold, to, s0, FALSE)
    /\ Sequential

\* As Init, with the states and the runs of outcomes of the breaker recorded.
InitObs ==
    /\ \E th \in Thresholds, to \in Timeouts, s0 \in State : Construct(th, to, s0, TRUE)
    /\ Sequential

\* As Init, and one more admitted call of the breaker may be in progress.
InitOverlap ==
    /\ \E th \in Thresholds, to \in Timeouts, s0 \in State : Construct(th, to, s0, FALSE)
    /\ limit = MaxInflight + 1
    /\ threads = NoThreads

\* Two breakers of different names on one store; the calls of each breaker
\* follow each other, the calls of the two breakers overlap.
InitPair ==
    /\ \E th \in Thresholds, to \in Timeouts, s0 \in State :
          CircuitBreakerFactory("bar", th, to, s0)
    /\ limit = 1
    /\ threads = NoThreads

\* Two breaker instances of the same name on one store; the calls of each
\* instance follow each other, the calls of the two instances overlap.
InitTwin ==
    /\ \E th \in Thresholds, to \in Timeouts, s0 \in State :
          CircuitBreakerFactory("foo", th, to, s0)
    /\ limit = 1
    /\ threads = NoThreads

Next ==
    \/ Tick
    \/ \E i \in Insts : Enter(i)
    \/ \E i \in Insts, o \in Outcomes : Exit(i, o)
    \/ \E i \in Insts : AEnter(i)
    \/ \E i \in Insts, o \in Outcomes : AExit(i, o)
    \/ \E i \in Insts, sh \in {"dec", "adec"} : Call(i, sh)
    \/ \E i \in Insts : DecoratorCall(i)
    \/ \E i \in Insts, o \in Outcomes : DecoratorReturn(i, o)
    \/ \E i \in Insts : AsyncDecoratorCall(i)
    \/ \E i \in Insts, o \in Outcomes : AsyncDecoratorReturn(i, o)

\* The counter that increment_failure_counter (op = "failure") or
\* increment_success_counter (op = "success") works on, for the name nm.
CounterOf(st, op, nm) ==
    IF op = "failure" THEN st._failure_counter[nm] ELSE st._success_counter[nm]

\* A thread inside increment_failure_counter or increment_success_counter,
\* one bytecode at a time.  `self._counter[name] += 1` reads the entry
\* (BINARY_SUBSCR) ...
IncrementLoad(t) ==
    /\ threads[t].pc = "load"
    /\ threads' = [threads EXCEPT
                      ![t].value = CounterOf(storage, threads[t].op, threads[t].name),
                      ![t].pc = "store"]
    /\ UNCHANGED <<now, storage, cbs, name, threshold, timeout, state, wrapped,
                   inflight, ev, hist, runs, trail, observe, limit>>

\* ... and writes the entry back, one higher (STORE_SUBSCR).
IncrementStore(t) ==
    /\ threads[t].pc = "store"
    /\ storage' = IF threads[t].op = "failure"
                  THEN [storage EXCEPT
                          !._failure_counter[threads[t].name] = threads[t].value + 1]
                  ELSE [storage EXCEPT
                          !._success_counter[threads[t].name] = threads[t].value + 1]
    /\ threads' = [threads EXCEPT ![t].pc = "return"]
    /\ UNCHANGED <<now, cbs, name, threshold, timeout, state, wrapped,
                   inflight, ev, hist, runs, trail, observe, limit>>

\* `return self._counter[name]` reads the entry again.
IncrementReturn(t) ==
    /\ threads[t].pc = "return"
    /\ threads' = [threads EXCEPT
                      ![t].result = CounterOf(storage, threads[t].op, threads[t].name),
                      ![t].pc = "done"]
    /\ UNCHANGED <<now, storage, cbs, name, threshold, timeout, state, wrapped,
                   inflight, ev, hist, runs, trail, observe, limit>>

\* Every thread has called one of the two increments of a fresh store, for
\* one of the names, and none has run its first bytecode yet.
InitThreads ==
    /\ Construct(DefaultThreshold, 0, CLOSED, FALSE)
    /\ limit = MaxInflight
    /\ \E ops \in [Threads -> {"failure", "success"}], nms \in [Threads -> Names] :
          threads = [t \in Threads |->
                       [pc |-> "load", op |-> ops[t], name |-> nms[t],
                        value |-> 0, result |-> 0]]

\* The threads run, one bytecode of one thread at a time, in any order.
NextThreads ==
    \/ \E t \in Threads : IncrementLoad(t)
    \/ \E t \in Threads : IncrementStore(t)
    \/ \E t \in Threads : IncrementReturn(t)

\* The calls made through with-blocks, synchronous and asynchronous.
NextBlocks ==
    \/ Tick
    \/ \E i \in Insts : Enter(i)
    \/ \E i \in Insts, o \in Outcomes : Exit(i, o)
    \/ \E i \in Insts : AEnter(i)
    \/ \E i \in Insts, o \in Outcomes : AExit(i, o)

\* The calls of coroutines: async with-blocks and async decorator closures.
NextAsync ==
    \/ Tick
    \/ \E i \in Insts : AEnter(i)
    \/ \E i \in Insts, o \in Outcomes : AExit(i, o)
    \/ \E i \in Insts : Call(i, "adec")
    \/ \E i \in Insts : AsyncDecoratorCall(i)
    \/ \E i \in Insts, o \in Outcomes : AsyncDecoratorReturn(i, o)

\* The calls, with a store whose increment_success_counter may raise.
NextFaulty ==
    \/ Next
    \/ \E i \in Insts : ExitStoreError(i)
    \/ \E i \in Insts : AExitStoreError(i)
    \/ \E i \in Insts : DecoratorStoreError(i)
    \/ \E i \in Insts : AsyncDecoratorStoreError(i)

Spec == Init /\ [][Next]_vars

SpecDefault == InitDefault /\ [][Next]_vars

SpecObs == InitObs /\ [][Next]_vars

\* Coroutines whose calls of one breaker overlap.
SpecOverlap == InitOverlap /\ [][NextAsync]_vars

SpecPair == InitPair /\ [][NextBlocks]_vars

SpecTwin == InitTwin /\ [][NextBlocks]_vars

\* One breaker on a store whose increment_success_counter may raise.
SpecFaulty == Init /\ [][NextFaulty]_vars

\* Threads that call the increments of one MemoryStorage at the same time.
SpecThreads == InitThreads /\ [][NextThreads]_vars

(* ------------------------------- claims ------------------------------- *)

\* k failed calls
Fs(k) == [j \in 1..k |-> "F"]

\* The state breaker i was constructed in.
Constructed(i) == trail[i][1]

\* The last step was an admission check (steps 1-2 of a call) of breaker i.
Admitting(i) == ev.op = "admit" /\ ev.inst = i

\* An admission check admitted the call: no error, and the guarded operation
\* runs (the body of the with-block is entered, the closure is returned).
Admitted(i) ==
    /\ ev.raised = "none"
    /\ ev.shape \in {"cm", "acm"} => ev.ran /\ inflight[i][ev.shape] > 0
    /\ ev.shape \in {"dec", "adec"} => ev.shape \in wrapped[i]

\* An admission check rejected the call: CircuitBreakerException, the guarded
\* operation not started, no counter changed.
Rejected(i) ==
    /\ ev.raised = "CBE"
    /\ ~ev.ran
    /\ ev.dfail = 0 /\ ev.dsucc = 0

\* C1: a breaker constructed Closed on a fresh store with threshold T is
\* Closed after each of its first T - 1 failed calls and Open once the T-th
\* failed call has been processed; the next attempt, made before the timeout
\* has elapsed, raises CircuitBreakerException and the operation is not run.
C1_OpensOnThresholdthFailure ==
    \A i \in cbs : Constructed(i) = CLOSED =>
        /\ \A k \in 0..MaxHist :
              hist[i] = Fs(k) /\ k <= threshold[i] =>
                  /\ state[i] = (IF k < threshold[i] THEN CLOSED ELSE OPEN)
                  /\ failure_counter(storage, name[i]) = k
        /\ \A x \in {"A", "R"} :
              hist[i] = Append(Fs(threshold[i]), x) /\ Admitting(i) /\ ev.early =>
                  x = "R" /\ Rejected(i) /\ state[i] = OPEN

C1_Witness ==
    /\ Constructed("a") = CLOSED
    /\ threshold["a"] = MaxThreshold
    /\ hist["a"] = Append(Fs(MaxThreshold), "R")
    /\ Admitting("a") /\ ev.early /\ ev.raised = "CBE"

\* C2: whenever a closure returned by CircuitBreaker.__call__ is invoked
\* while the breaker is Open and the timeout has not elapsed, the invocation
\* raises CircuitBreakerException and the wrapped function is not run.
C2_EveryInvocationIsChecked ==
    (ev.op = "invoke" /\ ev.pre = OPEN /\ ev.early) =>
        ev.raised = "CBE" /\ ~ev.ran

\* C3: a breaker that went Closed -> Open -> Half-Open -> Closed admits the
\* next call attempt made while it is Closed.
C3_AdmitsAfterRecovery ==
    \A i \in cbs :
        ( /\ Admitting(i)
          /\ ev.pre = CLOSED
          /\ trail[i] \in {<<CLOSED, OPEN, HALF_OPEN, CLOSED>>,
                           <<CLOSED, OPEN, HALF_OPEN, CLOSED, OPEN>>}
          /\ failure_counter(storage, name[i]) >= threshold[i]
          /\ success_counter(storage, name[i]) >= threshold[i] )
        => Admitted(i)

\* C4: an admission check made while Open is rejected and leaves the state
\* Open when now < openedAt + timeout; when the timeout has elapsed (or no
\* timer is stored) it changes the state to Half-Open and admits the call.
C4_OpenUntilTimeout ==
    \A i \in cbs :
        (Admitting(i) /\ ev.pre = OPEN) =>
            IF ev.early
            THEN Rejected(i) /\ state[i] = OPEN
            ELSE Admitted(i) /\ state[i] = HALF_OPEN

C4_Witness ==
    /\ Admitting("a") /\ ev.pre = OPEN /\ ~ev.early
    /\ timeout["a"] > 0
    /\ \E tm \in timer(storage, "foo") : now = tm + timeout["a"]
    /\ state["a"] = HALF_OPEN /\ ev.ran

\* The scenario of C5: threshold = 5, timeout = 0, constructed Closed.
Scenario5(i) ==
    /\ Constructed(i) = CLOSED
    /\ threshold[i] = DefaultThreshold
    /\ timeout[i] = 0

\* C5, as claimed: in the scenario, the attempt after the 5th failed call
\* (the 6th) is rejected and changes no counter; the one after it (the 7th)
\* moves to Half-Open and is admitted.
C5_SixthAttemptRejected ==
    \A i \in cbs : Scenario5(i) =>
        /\ \A x \in {"A", "R"} :
              hist[i] = Append(Fs(DefaultThreshold), x) /\ Admitting(i) =>
                  x = "R" /\ Rejected(i)
        /\ \A x \in {"A", "R"} :
              hist[i] = Fs(DefaultThreshold) \o <<"R", x>> /\ Admitting(i) =>
                  x = "A" /\ Admitted(i) /\ state[i] = HALF_OPEN

\* C5, amended: in the scenario, the breaker is Open after the 5th failed
\* call (failure counter 5, success counter 0, timer set), and the attempt
\* after it (the 6th) already moves to Half-Open and is admitted, changing
\* no counter; a success of that call makes the success counter 1 and
\* leaves the breaker Half-Open.
C5_SixthAttemptAdmitted ==
    \A i \in cbs : Scenario5(i) =>
        /\ hist[i] = Fs(DefaultThreshold) =>
              /\ state[i] = OPEN
              /\ failure_counter(storage, name[i]) = DefaultThreshold
              /\ success_counter(storage, name[i]) = 0
              /\ timer(storage, name[i]) # {}
        /\ \A x \in {"A", "R"} :
              hist[i] = Append(Fs(DefaultThreshold), x) /\ Admitting(i) =>
                  /\ x = "A" /\ Admitted(i) /\ state[i] = HALF_OPEN
                  /\ ev.pre = OPEN /\ ev.dfail = 0 /\ ev.dsucc = 0
        /\ hist[i] = Append(Fs(DefaultThreshold), "S") =>
              /\ state[i] = HALF_OPEN
              /\ success_counter(storage, name[i]) = 1
              /\ failure_counter(storage, name[i]) = DefaultThreshold

C5_Witness ==
    /\ Scenario5("a")
    /\ hist["a"] = Append(Fs(DefaultThreshold), "A")
    /\ Admitting("a") /\ ev.pre = OPEN /\ state["a"] = HALF_OPEN /\ ev.ran

\* C6: whenever failure() is applied while the breaker is Half-Open, in any
\* call shape and whatever the counters are, the breaker is Open afterwards,
\* the open-timestamp is the current time and neither counter has changed.
C6_HalfOpenFailureReopens ==
    \A i \in cbs :
        ( /\ ev.op = "outcome" /\ ev.inst = i
          /\ ev.pre = HALF_OPEN
          /\ ev.applied = "failure" \/ ev.outcome = "exc" )
        => /\ ev.applied = "failure"
           /\ state[i] = OPEN
           /\ timer(storage, name[i]) = {now}
           /\ ev.dfail = 0 /\ ev.dsucc = 0

C6_Witness ==
    /\ ev.op = "outcome" /\ ev.inst = "a" /\ ev.shape = "adec"
    /\ ev.pre = HALF_OPEN /\ ev.outcome = "exc"
    /\ state["a"] = OPEN
    /\ now > 0
    /\ success_counter(storage, "foo") > 0
    /\ failure_counter(storage, "foo") > 0

\* C7: whenever the breaker changes from Half-Open to Closed, the last
\* threshold outcomes it processed were all successes recorded in Half-Open.
C7_ClosesAfterConsecutiveSuccesses ==
    \A i \in cbs :
        ( /\ ev.op \in {"admit", "outcome"} /\ ev.inst = i
          /\ ev.pre = HALF_OPEN /\ state[i] = CLOSED )
        => runs[i].hs >= threshold[i]

\* C8: whenever the breaker changes from Closed to Open, the last threshold
\* outcomes it processed while Closed were all failures.
C8_OpensAfterConsecutiveFailures ==
    \A i \in cbs :
        ( /\ ev.op \in {"admit", "outcome"} /\ ev.inst = i
          /\ ev.pre = CLOSED /\ state[i] = OPEN )
        => runs[i].cf >= threshold[i]

\* next_state() called on the state object of breaker i at time t1, and
\* once more on the same state object at time t2.
Twice(i, t1, t2) ==
    LET r1 == next_state(state[i], storage, Policy(i), t1)
    IN  [first |-> r1, second |-> next_state(state[i], r1.storage, Policy(i), t2)]

Counters(st) == <<st._failure_counter, st._success_counter>>

\* C9, as claimed: next_state() leaves the counters and the stored
\* open-timestamp unchanged in every state, and called twice in a row (the
\* clock reading the same) on the same state object it returns the same tag
\* and leaves the same store.
C9_NextStateReadOnly ==
    \A i \in cbs :
        LET c == Twice(i, now, now)
        IN  /\ c.first.storage = storage
            /\ c.second.storage = storage
            /\ c.second.state = c.first.state

\* C9, amended: next_state() never changes a counter; it changes the stored
\* open-timestamp only when called on a Closed state whose failure counter
\* has reached the threshold: it then returns Open and overwrites the
\* timestamp with the current time.  Called twice in a row on the same state
\* object it returns the same tag both times, unless the state is Open and
\* its timeout elapses between the calls (Open, then Half-Open).
C9_NextStateWritesOnlyOnOpening ==
    \A i \in cbs : \A t2 \in now..MaxTime :
        LET c == Twice(i, now, t2)
            opening == /\ state[i] = CLOSED
                       /\ failure_counter(storage, name[i]) >= threshold[i]
        IN  /\ Counters(c.first.storage) = Counters(storage)
            /\ Counters(c.second.storage) = Counters(storage)
            /\ ~opening => c.first.storage = storage /\ c.second.storage = storage
            /\ opening => /\ c.first.state = OPEN /\ c.second.state = OPEN
                          /\ c.first.storage = start_timeout_timer(storage, name[i], now)
                          /\ c.second.storage = start_timeout_timer(storage, name[i], t2)
            /\ c.second.state # c.first.state =>
                  /\ state[i] = OPEN /\ c.first.state = OPEN /\ c.second.state = HALF_OPEN
                  /\ \E tm \in timer(storage, name[i]) :
                        now < tm + timeout[i] /\ tm + timeout[i] <= t2
            /\ t2 = now => c.second.state = c.first.state

C9_Witness ==
    /\ Admitting("a") /\ ev.pre = CLOSED /\ state["a"] = OPEN
    /\ ev.raised = "CBE"
    /\ now > 0 /\ timer(storage, "foo") = {now}
    /\ success_counter(storage, "foo") >= threshold["a"]

\* C10: when an admitted guarded operation raises E, the caller sees E in
\* every call shape, also when the failure opens the breaker; and
\* CircuitBreakerException is raised only by an admission check, which has
\* not started the guarded operation and applies neither success() nor
\* failure().
C10_OperationErrorPropagates ==
    /\ (ev.op = "outcome" /\ ev.outcome # "ok") => ev.raised = ev.outcome
    /\ (ev.op = "outcome" /\ ev.outcome = "ok") => ev.raised = "none"
    /\ ev.raised = "CBE" => ev.op = "admit" /\ ~ev.ran /\ ev.applied = "none"

C10_Witness ==
    /\ ev.op = "outcome" /\ ev.outcome = "exc" /\ ev.raised = "exc"
    /\ ev.shape = "dec"
    /\ ev.pre = CLOSED /\ state[ev.inst] = OPEN

\* The last step ended the guarded operation of a call of breaker i that an
\* admission check had admitted.
EndedAdmitted(i) ==
    /\ ev.op = "outcome" /\ ev.inst = i
    /\ Len(hist[i]) > 0
    /\ hist[i][Len(hist[i])] \in {"S", "F", "B"}

\* C11: when the guarded operation of an admitted call ends, in any call
\* shape, success() is applied if it completed without error and failure()
\* if it raised any error, a cancellation (a BaseException) included; no
\* admitted call ends with neither applied.
C11_EveryOutcomeIsProcessed ==
    \A i \in cbs :
        EndedAdmitted(i) =>
            ev.applied = (IF ev.outcome = "ok" THEN "success" ELSE "failure")

\* The threads that called the increment op for the name nm.
Callers(op, nm) == {t \in Threads : threads[t].op = op /\ threads[t].name = nm}

\* C12: when the threads that called one increment for one name have all
\* returned, the counter is as many higher as there were callers, and the
\* values returned are the distinct consecutive values 1, 2, ..., one each.
C12_IncrementsAreAtomic ==
    \A op \in {"failure", "success"}, nm \in Names :
        (\A t \in Callers(op, nm) : threads[t].pc = "done") =>
            /\ CounterOf(storage, op, nm) = Cardinality(Callers(op, nm))
            /\ {threads[t].result : t \in Callers(op, nm)}
                  = 1..Cardinality(Callers(op, nm))

\* What the store holds for the name of breaker i, and the state of i.
Footprint(i) ==
    <<failure_counter(storage, name[i]), success_counter(storage, name[i]),
      timer(storage, name[i]), state[i]>>

\* C13: a step of a call of a breaker leaves the counters, the stored
\* open-timestamp and the state of every breaker of another name unchanged,
\* and no step changes a failure counter and a success counter together.
C13_NamesDoNotInterfere ==
    [][ /\ \A i \in cbs :
              (ev'.op = "tick" \/ name[ev'.inst] # name[i]) =>
                  Footprint(i)' = Footprint(i)
        /\ storage'._failure_counter # storage._failure_counter =>
              storage'._success_counter = storage._success_counter ]_vars

C13_Witness ==
    /\ cbs = {"a", "b"} /\ name["a"] # name["b"]
    /\ ev.op = "outcome" /\ ev.inst = "a" /\ ev.dfail = 1
    /\ state["a"] = OPEN /\ state["b"] = HALF_OPEN
    /\ failure_counter(storage, name["b"]) > 0
    /\ success_counter(storage, name["b"]) > 0
    /\ timer(storage, name["b"]) # {}
    /\ timer(storage, name["b"]) # timer(storage, name["a"])
    /\ Total("b") > 0

\* C14: a call attempt that raises CircuitBreakerException leaves the failure
\* counter and the success counter of the breaker's name as they were, in
\* every call shape and from every state the breaker was in.
C14_RejectionTouchesNoCounter ==
    \A i \in cbs :
        (ev.inst = i /\ ev.raised = "CBE") =>
            /\ ev.op = "admit"
            /\ ev.dfail = 0 /\ ev.dsucc = 0
            /\ ev.pre \in {OPEN, CLOSED} /\ state[i] = OPEN

\* A rejection from Closed (the failure counter had passed the threshold
\* before), in the direct-call shape.
C14_Witness ==
    /\ ev.op = "admit" /\ ev.inst = "a" /\ ev.raised = "CBE"
    /\ ev.shape = "adec" /\ ev.pre = CLOSED
    /\ success_counter(storage, "foo") > 0
    /\ failure_counter(storage, "foo") > threshold["a"]

\* C15: with breaker instances of one name on one store, a failure that an
\* instance processes while Closed adds one to the shared failure counter,
\* and an instance that is Closed at an admission check made when the shared
\* counter has reached the threshold becomes Open and rejects the call.
C15_SharedThresholdOpensEveryInstance ==
    \A i \in cbs :
        /\ ( /\ ev.op = "outcome" /\ ev.inst = i
             /\ ev.pre = CLOSED /\ ev.applied = "failure" ) => ev.dfail = 1
        /\ ( /\ Admitting(i) /\ ev.pre = CLOSED
             /\ failure_counter(storage, name[i]) - ev.dfail >= threshold[i] )
           => Rejected(i) /\ state[i] = OPEN

\* Instance a, still Closed, is rejected at its admission check after the
\* shared counter reached the threshold by failures of both instances.
C15_Witness ==
    /\ cbs = {"a", "b"} /\ name["a"] = name["b"]
    /\ threshold["a"] = MaxThreshold
    /\ Admitting("a") /\ ev.pre = CLOSED /\ ev.raised = "CBE"
    /\ state["a"] = OPEN /\ state["b"] = OPEN
    /\ failure_counter(storage, name["a"]) = MaxThreshold
    /\ trail["a"][1] = CLOSED

\* C16: in every step, the failure counter of a name changes only by +1 and
\* exactly when a breaker of that name processes a failure while Closed; its
\* success counter changes only by +1 and exactly when a breaker of that name
\* processes a success while Half-Open; and an outcome processed while Open
\* leaves the states and the whole store unchanged.
C16_CounterDiscipline ==
    [][ /\ \A nm \in Names :
              LET df == failure_counter(storage, nm)' - failure_counter(storage, nm)
                  ds == success_counter(storage, nm)' - success_counter(storage, nm)
                  mine == ev'.op = "outcome" /\ name[ev'.inst] = nm
              IN  /\ df \in {0, 1} /\ ds \in {0, 1}
                  /\ df = 1 <=> ( /\ mine /\ ev'.applied = "failure"
                                  /\ state[ev'.inst] = CLOSED )
                  /\ ds = 1 <=> ( /\ mine /\ ev'.applied = "success"
                                  /\ state[ev'.inst] = HALF_OPEN )
        /\ (ev'.op = "outcome" /\ state[ev'.inst] = OPEN) =>
              storage' = storage /\ state' = state ]_vars

\* A call admitted through an async with-block ends while the breaker is
\* Open (another call opened it meanwhile) and a further call is in progress.
C16_Witness ==
    /\ ev.op = "outcome" /\ ev.inst = "a" /\ ev.shape = "acm"
    /\ ev.pre = OPEN /\ ev.applied = "failure"
    /\ state["a"] = OPEN
    /\ Total("a") > 0
    /\ \E tm \in timer(storage, "foo") : tm < now

\* C17: whenever a breaker is Open, an open-timestamp is stored for its name
\* (also after construction in Open); and the stored open-timestamp of a name
\* changes only in a step in which a breaker of that name goes from Closed or
\* Half-Open to Open, and then it becomes the current time (it is never
\* cleared).
C17_OpenHasTimer ==
    /\ [](\A i \in cbs : state[i] = OPEN => timer(storage, name[i]) # {})
    /\ [][ \A nm \in Names :
              timer(storage, nm)' # timer(storage, nm) =>
                  /\ timer(storage, nm)' = {now}
                  /\ ev'.op \in {"admit", "outcome"}
                  /\ name[ev'.inst] = nm
                  /\ state[ev'.inst] \in {CLOSED, HALF_OPEN}
                  /\ state'[ev'.inst] = OPEN ]_vars

\* A breaker constructed Open (timestamp 0) has been Half-Open and is Open
\* again, by a failure, with the timestamp of that later time.
C17_Witness ==
    /\ Constructed("a") = OPEN
    /\ ev.op = "outcome" /\ ev.inst = "a" /\ ev.pre = HALF_OPEN
    /\ state["a"] = OPEN
    /\ now > 0 /\ timer(storage, "foo") = {now}

\* C18: from every state, store content and clock value, a call guarded by a
\* with-block and the same call made by wrapping the function and calling
\* the closure once leave the same state, the same counters and the same
\* open-timestamp, and show the caller the same error, when the operation
\* returns and when it raises an Exception.
C18_BlockAndWrapperAgree ==
    \A i \in cbs, o \in {"ok", "exc"}, t2 \in now..MaxTime :
        LET b == WithBlock(state[i], storage, Policy(i), now, t2, o)
            w == WrappedCall(state[i], storage, Policy(i), now, t2, o)
        IN  /\ b.state = w.state
            /\ failure_counter(b.storage, name[i]) = failure_counter(w.storage, name[i])
            /\ success_counter(b.storage, name[i]) = success_counter(w.storage, name[i])
            /\ timer(b.storage, name[i]) = timer(w.storage, name[i])
            /\ b.raised = w.raised

\* After a failed closure call the breaker is Open with the timeout over: the
\* next call, in either shape, is admitted to Half-Open; a success closes the
\* breaker, an Exception re-opens it and reaches the caller.
C18_Witness ==
    /\ ev.op = "outcome" /\ ev.inst = "a" /\ ev.shape = "dec" /\ ev.outcome = "exc"
    /\ state["a"] = OPEN /\ ~Early("a")
    /\ WithBlock(OPEN, storage, Policy("a"), now, now, "ok").state = CLOSED
    /\ WrappedCall(OPEN, storage, Policy("a"), now, now, "exc").state = OPEN
    /\ WrappedCall(OPEN, storage, Policy("a"), now, now, "exc").raised = "exc"

\* C19: when the store raises while the success of a guarded call is being
\* recorded, the caller sees the store's error, failure() is not applied and
\* the state stays as it was, in the closures as in the with-blocks.
C19_StoreErrorIsNotAFailure ==
    \A i \in cbs :
        (ev.op = "outcome" /\ ev.inst = i /\ ev.outcome = "ok" /\ ev.raised = "store") =>
            /\ ev.applied # "failure"
            /\ state[i] = ev.pre

\* The four edges of the state machine.
Edges ==
    {<<CLOSED, OPEN>>, <<OPEN, HALF_OPEN>>, <<HALF_OPEN, CLOSED>>, <<HALF_OPEN, OPEN>>}

\* C20: a step that changes the state of a breaker is an admission check or
\* an outcome report of that breaker (not the passing of time, not the start
\* of the operation), and it takes the state along one of the four edges; a
\* call, one admission and one outcome, so changes the state at most twice.
C20_FourEdgesOnly ==
    [][ \A i \in cbs :
            state'[i] # state[i] =>
                /\ <<state[i], state'[i]>> \in Edges
                /\ ev'.op \in {"admit", "outcome"}
                /\ ev'.inst = i
                /\ ev'.pre = state[i] ]_vars

\* The first call of a breaker constructed Open changed its state twice: its
\* admission from Open to Half-Open, its success from Half-Open to Closed.
C20_Witness ==
    /\ Constructed("a") = OPEN
    /\ hist["a"] = <<"S">>
    /\ ev.op = "outcome" /\ ev.inst = "a" /\ ev.pre = HALF_OPEN
    /\ state["a"] = CLOSED

=============================================================================
